---- MODULE Spec2Model ----
(***************************************************************************)
(* Announcements endpoints of the High School Management System API        *)
(* (src/backend/routers/announcements.py): the announcement collection,    *)
(* the five request handlers and the date handling they rely on.           *)
(***************************************************************************)
EXTENDS Naturals, Integers, Sequences, FiniteSets, TLC

(***************************************************************************)
(* Strings that the code inspects character by character (the date         *)
(* parameters and the current date's ISO text) are sequences of character  *)
(* codes, so that Python's and the store's code-point ordering of strings  *)
(* and datetime.fromisoformat are computed, not assumed.                   *)
(***************************************************************************)
Ord ==
  [c \in {"0", "1", "2", "3", "4", "5", "6", "7", "8", "9"} |->
     CASE c = "0" -> 48 [] c = "1" -> 49 [] c = "2" -> 50 [] c = "3" -> 51
       [] c = "4" -> 52 [] c = "5" -> 53 [] c = "6" -> 54 [] c = "7" -> 55
       [] c = "8" -> 56 [] c = "9" -> 57]
  @@ ("-" :> 45) @@ (":" :> 58) @@ ("T" :> 84) @@ ("a" :> 97) @@ ("d" :> 100)
  @@ ("e" :> 101) @@ ("n" :> 110) @@ ("o" :> 111) @@ ("t" :> 116)

Str(chars) == [i \in 1..Len(chars) |-> Ord[chars[i]]]

\* Optional[str] = None: a value that is no string (no character has code -1).
None == <<-1>>

\* Python truthiness of an Optional[str]: None and "" are falsy.
Truthy(s) == s # None /\ s # <<>>

\* a < b for Python str / BSON string values: code-point lexicographic order.
StrLess(a, b) ==
  \/ \E i \in 1..Len(a) :
        /\ i <= Len(b)
        /\ \A j \in 1..(i - 1) : a[j] = b[j]
        /\ a[i] < b[i]
  \/ /\ Len(a) < Len(b)
     /\ \A j \in 1..Len(a) : a[j] = b[j]

StrGreater(a, b) == StrLess(b, a)

StrGte(a, b) == ~StrLess(a, b)

(***************************************************************************)
(* datetime.fromisoformat(s).date() for the extended ISO format            *)
(* YYYY-MM-DD[*HH[:MM[:SS]]]; a failed parse is Python's ValueError.       *)
(***************************************************************************)
IsDigit(c) == c >= 48 /\ c <= 57

AllDigits(s, i, j) == \A k \in i..j : IsDigit(s[k])

RECURSIVE Num(_, _, _)
Num(s, i, j) == IF j < i THEN 0 ELSE Num(s, i, j - 1) * 10 + (s[j] - 48)

IsLeap(y) == y % 4 = 0 /\ (y % 100 # 0 \/ y % 400 = 0)

DaysInMonth(y, m) ==
  IF m = 2 THEN (IF IsLeap(y) THEN 29 ELSE 28)
  ELSE IF m \in {4, 6, 9, 11} THEN 30 ELSE 31

ValueError == [ok |-> FALSE, year |-> 0, month |-> 0, day |-> 0]

MkDate(y, m, d) == [ok |-> TRUE, year |-> y, month |-> m, day |-> d]

\* The time part after the separator: HH, HH:MM or HH:MM:SS, fields in range.
TimeOk(s) ==
  LET n == Len(s) - 11
  IN /\ n \in {2, 5, 8}
     /\ AllDigits(s, 12, 13) /\ Num(s, 12, 13) <= 23
     /\ n >= 5 => (s[14] = 58 /\ AllDigits(s, 15, 16) /\ Num(s, 15, 16) <= 59)
     /\ n >= 8 => (s[17] = 58 /\ AllDigits(s, 18, 19) /\ Num(s, 18, 19) <= 59)

FromIsoformatDate(s) ==
  IF s = None \/ Len(s) < 10 THEN ValueError
  ELSE IF ~(AllDigits(s, 1, 4) /\ s[5] = 45 /\ AllDigits(s, 6, 7)
            /\ s[8] = 45 /\ AllDigits(s, 9, 10)) THEN ValueError
  ELSE LET y == Num(s, 1, 4)
           m == Num(s, 6, 7)
           d == Num(s, 9, 10)
       IN IF y < 1 \/ m < 1 \/ m > 12 \/ d < 1 \/ d > DaysInMonth(y, m)
          THEN ValueError
          ELSE IF Len(s) > 10 /\ ~TimeOk(s) THEN ValueError
          ELSE MkDate(y, m, d)

\* date.__gt__ : comparison of (year, month, day).
DateGreater(a, b) ==
  \/ a.year > b.year
  \/ a.year = b.year /\ a.month > b.month
  \/ a.year = b.year /\ a.month = b.month /\ a.day > b.day

\* date.isoformat(): "%04d-%02d-%02d".
Digit(n) == 48 + (n % 10)

DateIsoformat(d) ==
  << Digit(d.year \div 1000), Digit(d.year \div 100), Digit(d.year \div 10),
     Digit(d.year), 45, Digit(d.month \div 10), Digit(d.month), 45,
     Digit(d.day \div 10), Digit(d.day) >>

(***************************************************************************)
(* Input values of the requests.                                           *)
(***************************************************************************)
\* teachers_collection: the Teacher Directory, never written by this router.
Teachers == {"t1", "t2"}

\* The teacher_username query parameter left out (its default, None).
Absent == "<absent>"

Usernames == {Absent, "", "ghost"} \cup Teachers

D1 == Str(<<"2", "0", "2", "5", "-", "0", "6", "-", "0", "1">>)
D2 == Str(<<"2", "0", "2", "5", "-", "0", "6", "-", "0", "2">>)
D2T == Str(<<"2", "0", "2", "5", "-", "0", "6", "-", "0", "2", "T",
             "1", "0", ":", "0", "0", ":", "0", "0">>)
NotADate == Str(<<"n", "o", "t", "-", "a", "-", "d", "a", "t", "e">>)

\* Values of datetime.utcnow().date() the public listing is asked at.
Days == {MkDate(2025, 6, 1), MkDate(2025, 6, 2), MkDate(2025, 6, 3)}

\* Number of announcements ever inserted.
MaxIds == 2

\* The announcement_id path parameter: the text of a 24-digit hexadecimal
\* number n, or a text that is no such number.
OidStr(n) == [hex |-> TRUE, n |-> n]
BadId == [hex |-> FALSE, n |-> 0]
NoId == [hex |-> FALSE, n |-> 1]
IdStrings == {BadId} \cup {OidStr(n) : n \in 1..(MaxIds + 1)}

VARIABLES
  announcements,  \* announcements_collection: ObjectId -> document
  nextId,         \* the ObjectId the store assigns to the next insert
  clock,          \* datetime.utcnow() read by create
  last,           \* the last request served and its response
  inflight        \* an update request being served step by step

vars == <<announcements, nextId, clock, last, inflight>>

(***************************************************************************)
(* The document store.                                                     *)
(***************************************************************************)
InvalidId == 0

\* bson.ObjectId(announcement_id): InvalidId stands for the exception.
ObjectId(s) == IF s.hex THEN s.n ELSE InvalidId

FindOne(coll, oid) == IF oid \in DOMAIN coll THEN <<coll[oid]>> ELSE <<>>

InsertOne(coll, oid, doc) == coll @@ (oid :> doc)

\* Variant: the document is replaced by the update data (replace_one), so
\* the fields outside the update data are lost.
UpdateOneReplace(coll, oid, data) ==
  IF oid \in DOMAIN coll
  THEN [coll |-> [coll EXCEPT ![oid] =
                    [message |-> data.message, start_date |-> data.start_date,
                     expiration_date |-> data.expiration_date,
                     created_by |-> "", created_at |-> 0]],
        matched_count |-> 1]
  ELSE [coll |-> coll, matched_count |-> 0]

\* update_one(filter by _id, $set): the collection after, and matched_count.
UpdateOne(coll, oid, data) ==
  IF oid \in DOMAIN coll
  THEN [coll |-> [coll EXCEPT ![oid] =
                    [@ EXCEPT !.message = data.message,
                              !.start_date = data.start_date,
                              !.expiration_date = data.expiration_date]],
        matched_count |-> 1]
  ELSE [coll |-> coll, matched_count |-> 0]

\* delete_one(filter by _id): the collection after, and deleted_count.
DeleteOne(coll, oid) ==
  IF oid \in DOMAIN coll
  THEN [coll |-> [o \in DOMAIN coll \ {oid} |-> coll[o]], deleted_count |-> 1]
  ELSE [coll |-> coll, deleted_count |-> 0]

\* announcement["_id"] = str(announcement["_id"])
Serialize(oid, doc) ==
  [_id |-> OidStr(oid), message |-> doc.message, start_date |-> doc.start_date,
   expiration_date |-> doc.expiration_date, created_by |-> doc.created_by,
   created_at |-> doc.created_at]

\* find(...).sort("created_at", -1) over the documents with ids in `ids`.
RECURSIVE SortedDesc(_, _)
SortedDesc(coll, ids) ==
  IF ids = {} THEN <<>>
  ELSE LET m == CHOOSE i \in ids :
                  \A j \in ids : coll[j].created_at <= coll[i].created_at
       IN <<Serialize(m, coll[m])>> \o SortedDesc(coll, ids \ {m})

(***************************************************************************)
(* Checks shared by the handlers.                                          *)
(***************************************************************************)
\* Variant: the teacher lookup is left out.
AuthenticatePresenceOnly(teacher_username) ==
  IF teacher_username = Absent \/ teacher_username = ""
  THEN "Authentication required for this action"
  ELSE "ok"

\* "Check teacher authentication": the detail of the 401, or "ok".
Authenticate(teacher_username) ==
  IF teacher_username = Absent \/ teacher_username = ""
  THEN "Authentication required for this action"
  ELSE IF teacher_username \notin Teachers
  THEN "Invalid teacher credentials"
  ELSE "ok"

\* Variant: the comparison of start and expiration is left out.
ValidateDatesNoOrder(expiration_date, start_date) ==
  LET exp_date == FromIsoformatDate(expiration_date)
      st_date == FromIsoformatDate(start_date)
  IN IF ~exp_date.ok THEN "Invalid date format. Use YYYY-MM-DD"
     ELSE IF ~Truthy(start_date) THEN "ok"
     ELSE IF ~st_date.ok THEN "Invalid date format. Use YYYY-MM-DD"
     ELSE "ok"

\* Variant: start_date is never parsed.
ValidateDatesExpOnly(expiration_date, start_date) ==
  IF ~FromIsoformatDate(expiration_date).ok
  THEN "Invalid date format. Use YYYY-MM-DD"
  ELSE "ok"

\* "Validate date format and logic": the detail of the 400, or "ok".
ValidateDates(expiration_date, start_date) ==
  LET exp_date == FromIsoformatDate(expiration_date)
      st_date == FromIsoformatDate(start_date)
  IN IF ~exp_date.ok THEN "Invalid date format. Use YYYY-MM-DD"
     ELSE IF ~Truthy(start_date) THEN "ok"
     ELSE IF ~st_date.ok THEN "Invalid date format. Use YYYY-MM-DD"
     ELSE IF DateGreater(st_date, exp_date)
     THEN "Start date cannot be after expiration date"
     ELSE "ok"

Outcome(status, detail, coll, result) ==
  [status |-> status, detail |-> detail, coll |-> coll, result |-> result]

(***************************************************************************)
(* The handlers: the response and the collection after the request.        *)
(***************************************************************************)
\* GET /announcements/active
get_active_announcements(coll, today) ==
  LET current_date == DateIsoformat(today)
      found == {o \in DOMAIN coll :
                  StrGte(coll[o].expiration_date, current_date)}
      Shown(a) == ~(Truthy(a.start_date)
                    /\ StrGreater(a.start_date, current_date))
  IN Outcome(200, "", coll, SelectSeq(SortedDesc(coll, found), Shown))

\* GET /announcements
get_all_announcements(coll, teacher_username) ==
  LET auth == Authenticate(teacher_username)
  IN IF auth # "ok" THEN Outcome(401, auth, coll, <<>>)
     ELSE Outcome(200, "", coll, SortedDesc(coll, DOMAIN coll))

\* POST /announcements
create_announcement(coll, oid, now, message, expiration_date, start_date, teacher_username) ==
  LET auth == Authenticate(teacher_username)
      dates == ValidateDates(expiration_date, start_date)
      announcement == [message |-> message, start_date |-> start_date,
                       expiration_date |-> expiration_date,
                       created_by |-> teacher_username, created_at |-> now]
  IN IF auth # "ok" THEN Outcome(401, auth, coll, <<>>)
     ELSE IF ~Truthy(expiration_date)
     THEN Outcome(400, "Expiration date is required", coll, <<>>)
     ELSE IF dates # "ok" THEN Outcome(400, dates, coll, <<>>)
     ELSE Outcome(200, "", InsertOne(coll, oid, announcement),
                  <<Serialize(oid, announcement)>>)

\* Variant: the existence check (find_one) is left out.
UpdateChecksNoLookup(coll, announcement_id, expiration_date, start_date, teacher_username) ==
  LET auth == Authenticate(teacher_username)
      obj_id == ObjectId(announcement_id)
      dates == ValidateDates(expiration_date, start_date)
  IN IF auth # "ok" THEN [status |-> 401, detail |-> auth]
     ELSE IF obj_id = InvalidId
     THEN [status |-> 400, detail |-> "Invalid announcement ID"]
     ELSE IF dates # "ok" THEN [status |-> 400, detail |-> dates]
     ELSE [status |-> 200, detail |-> "ok"]

\* Variant: the dates are validated before the identifier, as in create.
UpdateChecksDatesFirst(coll, announcement_id, expiration_date, start_date, teacher_username) ==
  LET auth == Authenticate(teacher_username)
      obj_id == ObjectId(announcement_id)
      dates == ValidateDates(expiration_date, start_date)
  IN IF auth # "ok" THEN [status |-> 401, detail |-> auth]
     ELSE IF dates # "ok" THEN [status |-> 400, detail |-> dates]
     ELSE IF obj_id = InvalidId
     THEN [status |-> 400, detail |-> "Invalid announcement ID"]
     ELSE IF FindOne(coll, obj_id) = <<>>
     THEN [status |-> 404, detail |-> "Announcement not found"]
     ELSE [status |-> 200, detail |-> "ok"]

\* PUT /announcements/{announcement_id}, up to and including the date checks:
\* the detail and status of the error raised, or "ok".
UpdateChecks(coll, announcement_id, expiration_date, start_date, teacher_username) ==
  LET auth == Authenticate(teacher_username)
      obj_id == ObjectId(announcement_id)
      dates == ValidateDates(expiration_date, start_date)
  IN IF auth # "ok" THEN [status |-> 401, detail |-> auth]
     ELSE IF obj_id = InvalidId
     THEN [status |-> 400, detail |-> "Invalid announcement ID"]
     ELSE IF FindOne(coll, obj_id) = <<>>
     THEN [status |-> 404, detail |-> "Announcement not found"]
     ELSE IF dates # "ok" THEN [status |-> 400, detail |-> dates]
     ELSE [status |-> 200, detail |-> "ok"]

\* PUT /announcements/{announcement_id}, from update_one on: `coll` is the
\* collection update_one finds, `later` the one the final find_one reads.
UpdateWrite(coll, obj_id, message, expiration_date, start_date) ==
  UpdateOne(coll, obj_id, [message |-> message, start_date |-> start_date,
                           expiration_date |-> expiration_date])

UpdateReadBack(later, obj_id) ==
  LET updated == FindOne(later, obj_id)
  IN IF updated = <<>>
     THEN [status |-> 500, detail |-> "TypeError", result |-> <<>>]
     ELSE [status |-> 200, detail |-> "",
           result |-> <<Serialize(obj_id, updated[1])>>]

\* PUT /announcements/{announcement_id} served without interruption.
update_announcement(coll, announcement_id, message, expiration_date, start_date, teacher_username) ==
  LET checks == UpdateChecks(coll, announcement_id, expiration_date,
                             start_date, teacher_username)
      obj_id == ObjectId(announcement_id)
      written == UpdateWrite(coll, obj_id, message, expiration_date,
                             start_date)
      back == UpdateReadBack(written.coll, obj_id)
  IN IF checks.status # 200
     THEN Outcome(checks.status, checks.detail, coll, <<>>)
     ELSE IF written.matched_count = 0
     THEN Outcome(500, "Failed to update announcement", written.coll, <<>>)
     ELSE Outcome(back.status, back.detail, written.coll, back.result)

\* DELETE /announcements/{announcement_id}
delete_announcement(coll, announcement_id, teacher_username) ==
  LET auth == Authenticate(teacher_username)
      obj_id == ObjectId(announcement_id)
      gone == DeleteOne(coll, obj_id)
  IN IF auth # "ok" THEN Outcome(401, auth, coll, <<>>)
     ELSE IF obj_id = InvalidId
     THEN Outcome(400, "Invalid announcement ID", coll, <<>>)
     ELSE IF gone.deleted_count = 0
     THEN Outcome(404, "Announcement not found", coll, <<>>)
     ELSE Outcome(200, "Announcement deleted successfully", gone.coll, <<>>)

(***************************************************************************)
(* The state machine: one action per request.                              *)
(***************************************************************************)
Request(op, teacher_username, announcement_id, message, start_date, expiration_date, today) ==
  [op |-> op, teacher_username |-> teacher_username,
   announcement_id |-> announcement_id, message |-> message,
   start_date |-> start_date, expiration_date |-> expiration_date,
   today |-> today]

Served(req, out) ==
  [req |-> req, status |-> out.status, detail |-> out.detail,
   result |-> out.result]

NoDay == MkDate(1, 1, 1)

Idle ==
  [pc |-> "idle",
   req |-> Request("none", Absent, NoId, "", None, <<>>, NoDay),
   status |-> 0, detail |-> "", result |-> <<>>]

Init ==
  /\ announcements = <<>>
  /\ nextId = 1
  /\ clock = 1
  /\ last = Served(Request("none", Absent, NoId, "", None, <<>>, NoDay),
                   Outcome(0, "", <<>>, <<>>))
  /\ inflight = Idle

ListActive(DaySet) ==
  \E today \in DaySet :
    /\ last' = Served(Request("list-active", Absent, NoId, "", None, <<>>, today),
                      get_active_announcements(announcements, today))
    /\ UNCHANGED <<announcements, nextId, clock, inflight>>

ListAll(T) ==
  \E t \in T :
    /\ last' = Served(Request("list-all", t, NoId, "", None, <<>>, NoDay),
                      get_all_announcements(announcements, t))
    /\ UNCHANGED <<announcements, nextId, clock, inflight>>

Create(T, M, S, E) ==
  \E t \in T, m \in M, s \in S, e \in E :
    LET out == create_announcement(announcements, nextId, clock, m, e, s, t)
    IN /\ out.status = 200 => nextId <= MaxIds
       /\ announcements' = out.coll
       /\ nextId' = IF out.status = 200 THEN nextId + 1 ELSE nextId
       /\ clock' = IF out.status = 200 THEN clock + 1 ELSE clock
       /\ last' = Served(Request("create", t, NoId, m, s, e, NoDay), out)
       /\ UNCHANGED inflight

Update(T, I, M, S, E) ==
  \E t \in T, i \in I, m \in M, s \in S, e \in E :
    LET out == update_announcement(announcements, i, m, e, s, t)
    IN /\ announcements' = out.coll
       /\ last' = Served(Request("update", t, i, m, s, e, NoDay), out)
       /\ UNCHANGED <<nextId, clock, inflight>>

Delete(T, I) ==
  \E t \in T, i \in I :
    LET out == delete_announcement(announcements, i, t)
    IN /\ announcements' = out.coll
       /\ last' = Served(Request("delete", t, i, "", None, <<>>, NoDay), out)
       /\ UNCHANGED <<nextId, clock, inflight>>

(***************************************************************************)
(* An update request served one store call at a time, other requests       *)
(* being served in between.                                                *)
(***************************************************************************)
UpdateBegin(T, I, M, S, E) ==
  /\ inflight.pc \in {"idle", "done"}
  /\ \E t \in T, i \in I, m \in M, s \in S, e \in E :
       LET checks == UpdateChecks(announcements, i, e, s, t)
           req == Request("update", t, i, m, s, e, NoDay)
       IN inflight' =
            IF checks.status # 200
            THEN [pc |-> "done", req |-> req, status |-> checks.status,
                  detail |-> checks.detail, result |-> <<>>]
            ELSE [pc |-> "checked", req |-> req, status |-> 0,
                  detail |-> "", result |-> <<>>]
  /\ UNCHANGED <<announcements, nextId, clock, last>>

UpdateStore ==
  /\ inflight.pc = "checked"
  /\ LET r == inflight.req
         written == UpdateWrite(announcements, ObjectId(r.announcement_id),
                                r.message, r.expiration_date, r.start_date)
     IN /\ announcements' = written.coll
        /\ inflight' =
             IF written.matched_count = 0
             THEN [inflight EXCEPT !.pc = "done", !.status = 500,
                     !.detail = "Failed to update announcement"]
             ELSE [inflight EXCEPT !.pc = "written"]
  /\ UNCHANGED <<nextId, clock, last>>

UpdateReturn ==
  /\ inflight.pc = "written"
  /\ LET back == UpdateReadBack(announcements,
                                ObjectId(inflight.req.announcement_id))
     IN inflight' = [inflight EXCEPT !.pc = "done", !.status = back.status,
                       !.detail = back.detail, !.result = back.result]
  /\ UNCHANGED <<announcements, nextId, clock, last>>

(***************************************************************************)
(* Specifications: the same handlers over different request values.        *)
(***************************************************************************)
\* Callers and identifiers of every kind, few dates.
AuthStarts == {None, NotADate, D2}
AuthExps == {<<>>, D1, D2}

NextAuth ==
  \/ ListActive({MkDate(2025, 6, 2)})
  \/ ListAll(Usernames \ {"t2"})
  \/ Create(Usernames \ {"t2"}, {"m1"}, AuthStarts, AuthExps)
  \/ Update(Usernames \ {"t2"}, IdStrings, {"m1"}, AuthStarts, AuthExps)
  \/ Delete(Usernames \ {"t2"}, IdStrings)

Spec == Init /\ [][NextAuth]_vars

\* One recognized teacher, dates of every kind.
DateStarts == {None, <<>>, NotADate, D2, D2T}
DateExps == {<<>>, NotADate, D1, D2}
StoredIds == {OidStr(n) : n \in 1..MaxIds}

NextDates ==
  \/ ListActive(Days)
  \/ Create({"t1"}, {"m1"}, DateStarts, DateExps)
  \/ Update({"t1"}, StoredIds \cup {BadId}, {"m1"}, DateStarts, DateExps)
  \/ Delete({"t1"}, StoredIds)

SpecDates == Init /\ [][NextDates]_vars

\* Two recognized teachers, several messages.
Messages == {"", "m1", "m2"}

NextFields ==
  \/ ListAll(Teachers)
  \/ Create(Teachers, Messages, {None, D1}, {D2})
  \/ Update(Teachers, StoredIds, Messages, {None, D1}, {D2})
  \/ Delete(Teachers, StoredIds)

SpecFields == Init /\ [][NextFields]_vars

\* An update served step by step among creates, deletes and listings.
NextConc ==
  \/ Create({"t1"}, {"m1"}, {None}, {D1})
  \/ Delete({"t1"}, StoredIds)
  \/ UpdateBegin({"ghost", "t1"}, IdStrings, {"m2"}, {None, D2}, {D1})
  \/ UpdateStore
  \/ UpdateReturn

SpecConc == Init /\ [][NextConc]_vars

(***************************************************************************)
(* Vocabulary of the properties.                                           *)
(***************************************************************************)
Recognized(t) == t \in Teachers

Protected == {"list-all", "create", "update", "delete"}

\* The calendar date a stored or supplied date text denotes.
DateOf(s) == FromIsoformatDate(s)

Present(s) == Truthy(s)

ReturnedIds(resp) == {resp.result[k]._id.n : k \in 1..Len(resp.result)}

\* Ids the store has assigned and that are stored no longer.
Deleted(coll, next) == {o \in 1..(next - 1) : o \notin DOMAIN coll}

\* Empty expiration date, a supplied date that does not parse, or start_date
\* later than expiration_date.
BadDates(req) ==
  \/ ~Present(req.expiration_date)
  \/ ~DateOf(req.expiration_date).ok
  \/ Present(req.start_date) /\ ~DateOf(req.start_date).ok
  \/ Present(req.start_date)
       /\ DateGreater(DateOf(req.start_date), DateOf(req.expiration_date))

\* The listing obtained by parsing the stored texts to dates.
DateBasedActive(coll, today) ==
  LET found == {o \in DOMAIN coll :
                  ~DateGreater(today, DateOf(coll[o].expiration_date))}
      Shown(a) == ~(Present(a.start_date)
                    /\ DateGreater(DateOf(a.start_date), today))
  IN SelectSeq(SortedDesc(coll, found), Shown)

(***************************************************************************)
(* C1. list-active returns exactly the stored announcements in whose date  *)
(* window today lies: none with expiration_date before today, none with   *)
(* start_date after today, and every other one.                            *)
(***************************************************************************)
C1_ListActiveExact ==
  last.req.op = "list-active" =>
    \A o \in DOMAIN announcements :
      LET a == announcements[o]
          today == last.req.today
          expired == DateGreater(today, DateOf(a.expiration_date))
          future == Present(a.start_date)
                      /\ DateGreater(DateOf(a.start_date), today)
      IN /\ expired => o \notin ReturnedIds(last)
         /\ future => o \notin ReturnedIds(last)
         /\ (~expired /\ ~future) => o \in ReturnedIds(last)

(***************************************************************************)
(* C2. Every stored announcement whose start_date is present has a         *)
(* start_date not later than its expiration_date.                          *)
(***************************************************************************)
C2_StartNotAfterExpiration ==
  \A o \in DOMAIN announcements :
    LET a == announcements[o]
    IN Present(a.start_date) =>
         /\ DateOf(a.start_date).ok
         /\ DateOf(a.expiration_date).ok
         /\ ~DateGreater(DateOf(a.start_date), DateOf(a.expiration_date))

C2_Witness ==
  /\ last.req.op = "update" /\ last.status = 200
  /\ \E o \in DOMAIN announcements :
       /\ announcements[o].start_date = D2T
       /\ announcements[o].expiration_date = D2

(***************************************************************************)
(* C3. A protected request whose teacher_username is absent or names no    *)
(* teacher is answered 401 whatever its other inputs are, and leaves the   *)
(* collection unchanged.                                                   *)
(***************************************************************************)
C3_AuthFirst ==
  [][(last'.req.op \in Protected /\ ~Recognized(last'.req.teacher_username))
       => (last'.status = 401 /\ announcements' = announcements)]_vars

C3_Witness ==
  /\ last.req.op = "update"
  /\ last.req.teacher_username = "ghost"
  /\ last.req.announcement_id = BadId
  /\ last.req.start_date = D2 /\ last.req.expiration_date = D1
  /\ last.status = 401
  /\ DOMAIN announcements # {}

C5_DeletionPermanent ==
  [][\A o \in Deleted(announcements, nextId) :
       /\ o \in Deleted(announcements', nextId')
       /\ o \notin ReturnedIds(last')
       /\ (/\ last'.req.op \in {"update", "delete"}
           /\ Recognized(last'.req.teacher_username)
           /\ last'.req.announcement_id = OidStr(o)) => last'.status = 404]_vars

C5_Witness ==
  /\ 1 \in Deleted(announcements, nextId)
  /\ 2 \in DOMAIN announcements
  /\ last.req.op = "update"
  /\ last.req.teacher_username = "t1"
  /\ last.req.announcement_id = OidStr(1)
  /\ ~BadDates(last.req)
  /\ last.status = 404

C7_MessageNonEmpty ==
  /\ \A o \in DOMAIN announcements : announcements[o].message # ""
  /\ (last.req.op \in {"create", "update"} /\ last.req.message = "")
       => last.status # 200

(***************************************************************************)
(* C8. For a recognized teacher, update and delete answer 400 to a         *)
(* malformed identifier and 404 to a well-formed identifier of no stored   *)
(* record, whatever the dates supplied to update are.                      *)
(***************************************************************************)
C8_IdBeforeDates ==
  [][(/\ last'.req.op \in {"update", "delete"}
      /\ Recognized(last'.req.teacher_username))
       => LET id == last'.req.announcement_id
          IN /\ ~id.hex => (last'.status = 400 /\ announcements' = announcements)
             /\ (id.hex /\ id.n \notin DOMAIN announcements)
                  => (last'.status = 404 /\ announcements' = announcements)]_vars

C8_Witness ==
  /\ last.req.op = "update"
  /\ last.req.teacher_username = "t1"
  /\ last.req.announcement_id = OidStr(2)
  /\ 2 \notin DOMAIN announcements
  /\ 1 \in DOMAIN announcements
  /\ last.req.start_date = NotADate
  /\ last.status = 404

(***************************************************************************)
(* C9. An update served concurrently with other requests ends in one of    *)
(* its documented outcomes: 200 with the record, 400, 401, 404, or 500     *)
(* because update_one matched nothing.                                     *)
(***************************************************************************)
C9_UpdateOutcomeDocumented ==
  inflight.pc = "done" =>
    \/ inflight.status = 200 /\ Len(inflight.result) = 1
    \/ inflight.status \in {400, 401, 404}
    \/ inflight.status = 500
         /\ inflight.detail = "Failed to update announcement"

(***************************************************************************)
(* C10. The listing obtained by comparing the stored texts with today's    *)
(* ISO text is the listing obtained by comparing the dates they denote.    *)
(***************************************************************************)
C10_StringFilterIsDateFilter ==
  last.req.op = "list-active" =>
    last.result = DateBasedActive(announcements, last.req.today)

====
